---- MODULE Spec2Model ----
(***************************************************************************)
(* A model of cumulus13/bandping: the bandwidth monitor (src/bandwidth.py) *)
(* and the ping monitor (src/pingmon.py).  Each program has three display  *)
(* modes; a mode is one sampling loop.  The interactive/advanced modes run *)
(* the loop in a daemon thread beside a prompt_toolkit application, the    *)
(* other modes run it in the main thread with a signal handler that clears *)
(* the running flag.                                                       *)
(***************************************************************************)
EXTENDS Integers, Sequences, FiniteSets, TLC

(* ---- bounds of the model ---- *)
MaxTicks == 2
MaxCounter == 2
MaxCap == 2
MaxProbes == 3
MaxLatency == 2
MaxLen == 3
MaxVal == 3
MaxRamp == 15
MaxWidth == 11
MaxHeight == 3

(* ---- program constants ---- *)
INTERVAL == 1
HISTORY_POINTS == 120
HISTORY_MARGIN == 14
DEFAULT_TTL == 64
\* args.width as argparse leaves it: -W/--width defaults to 0, "auto"
chart_width == 0
\* the columns kept free beside the chart (`w - 4`, `term_width - 4`)
WIDTH_MARGIN == 4
\* the smallest width _final_width returns
MIN_WIDTH == 10
\* the significand of a Python float (IEEE-754 binary64) has 53 bits
MANT_DIG == 53

VARIABLES
    program,          \* "bandwidth" | "pingmon": which script runs
    mode,             \* the display mode main selected
    cols,             \* os.get_terminal_size()[0] as the terminal is now
    HISTORY,          \* the maxlen the history deques were built with
    running,          \* the running flag (running / running["val"])
    pc,               \* position of the sampling loop
    mainPc,           \* position of the main thread beside the poller thread
    prev,             \* bandwidth: previous counter reading [recv, sent]
    history_dl,       \* bandwidth: deque of download rates
    history_ul,       \* bandwidth: deque of upload rates
    frame,            \* what the display shows (control.text / live / stdout)
    stoppedCleanly,   \* "Stopped cleanly." has been printed
    stats,            \* pingmon: the stats dict
    history_latency,  \* pingmon: deque of latencies (0 for a lost probe)
    history_ttl,      \* pingmon basic: deque of TTLs
    result,           \* pingmon: (latency, ttl, success) of the probe in hand
    probes,           \* log: the (latency, success) of every probe made
    packet_loss,      \* pingmon: the loss rate the latest tick displayed
    std,              \* pingmon: the StdDev the latest tick displayed
    final,            \* pingmon: the final statistics as printed
    series,           \* render_chart_precise: the series argument
    width,            \* render_chart_precise: the width argument
    height,           \* render_chart_precise: the height argument
    data,             \* render_chart_precise: data once fitted to width
    out,              \* render_chart_precise: the string returned
    chartPc,          \* render_chart_precise: "call" | "returned"
    ticks,            \* number of loop bodies started (bounded)
    readings,         \* log: the baseline and every reading that was used
    pushed,           \* log: every <<dl, ul>> appended to the histories
    lastRead,         \* log: how the latest counter read or probe ended
    stopRequested,    \* log: a quit key or a signal has cleared the flag
    appendsAfterStop, \* log: history appends performed after that request
    plot,             \* the asciichartpy.plot calls of the latest tick
    sincePrev,        \* log: time.sleep(INTERVAL) calls since prev was read
    elapsed           \* log: seconds between the two readings of the latest rate

ctlVars == <<program, mode, cols, HISTORY, running, pc, mainPc, frame,
             stoppedCleanly, ticks, lastRead, stopRequested, appendsAfterStop>>
bwVars == <<prev, history_dl, history_ul, readings, pushed>>
pingVars == <<stats, history_latency, history_ttl, result, probes,
              packet_loss, std, final>>
chartVars == <<series, width, height, data, out, chartPc>>
tickVars == <<plot, sincePrev, elapsed>>
vars == <<ctlVars, bwVars, pingVars, chartVars, tickVars>>

(* ---- values ---- *)
BwModes == {"interactive", "original", "rich"}
Cols == (HISTORY_MARGIN - 1)..(HISTORY_MARGIN + MaxCap)
\* the download counter takes the start, one step and the top of the range
Counters == {0, 1, MaxCounter}
\* the upload counter takes the two ends of the range: equal, grown and reset
SentCounters == {0, MaxCounter}
Readings == [recv : Counters, sent : SentCounters]

Min2(a, b) == IF a < b THEN a ELSE b
Max2(a, b) == IF a > b THEN a ELSE b

(* The newest k elements of s, in order. *)
Newest(s, k) ==
    IF k >= Len(s) THEN s
    ELSE IF k <= 0 THEN <<>>
    ELSE SubSeq(s, Len(s) - k + 1, Len(s))

(* deque(maxlen=m).append(v): append on the right, drop from the left. *)
DequeAppend(h, v, m) == Newest(Append(h, v), m)

(* No call of render_chart_precise is modelled beside the monitors. *)
NoChartCall ==
    /\ series = <<>> /\ width = 0 /\ height = 0
    /\ data = <<>> /\ out = <<>> /\ chartPc = "none"

(* ---- chart calls of the monitors ---- *)

(* A tick that reaches no asciichartpy.plot call. *)
NoPlot == [called |-> FALSE, calls |-> <<>>, width |-> 0, raised |-> FALSE]

(* The asciichartpy.plot calls of one tick: `calls` lists, call by call,   *)
(* the histories passed as series; w is the "width" entry of the cfg; ok  *)
(* is FALSE when a call raised.                                           *)
PlotCalls(calls, w, ok) ==
    [called |-> TRUE, calls |-> calls, width |-> w, raised |-> ~ok]

(* _final_width() of monitor_bandwidth and monitor_ping_advanced, with w   *)
(* the columns read by the call:                                          *)
(*     max(10, min((chart_width or (w - 4)), w - 4))                      *)
_final_width(w) ==
    Max2(MIN_WIDTH,
         Min2(IF chart_width # 0 THEN chart_width ELSE w - WIDTH_MARGIN,
              w - WIDTH_MARGIN))

(* final_width of monitor_bandwidth_original and monitor_ping_basic:      *)
(*     chart_width if chart_width > 0 else term_width - 4                 *)
final_width(term_width) ==
    IF chart_width > 0 THEN chart_width ELSE term_width - WIDTH_MARGIN

(* No time has passed and no rate has been computed. *)
NoClock == sincePrev = 0 /\ elapsed = 0

(* ---- pingmon.py: values ---- *)
PingModes == {"basic", "advanced", "rich"}
\* a round trip takes the shortest or the longest time of the range
Latencies == {1, MaxLatency}
Ttls == {0, 1}
\* float('inf'): above every latency, those the model's probes return and
\* the 25 ms of the five-probe scenario
Inf == Max2(MaxLatency, 25) + 1

(* The stats dict as the three monitors create it. *)
NewStats ==
    [sent |-> 0, received |-> 0, lost |-> 0, min |-> Inf, max |-> 0,
     latencies |-> <<>>]

NoResult == [latency |-> 0, ttl |-> 0, success |-> FALSE]

(* do_ping(host): (latency_ms, ttl, True), or (0, 0, False) on a timeout   *)
(* or an exception inside ping.                                            *)
do_ping ==
    {[latency |-> l, ttl |-> t, success |-> TRUE] : l \in Latencies, t \in Ttls}
        \cup {NoResult}

(* packet_loss before its first assignment. *)
NoRate == [set |-> FALSE, num |-> 0, den |-> 1]

(* A rate of the probes answered instead of the probes lost. *)
PacketLossOfReceived(lost, sent) ==
    IF sent > 0 THEN [set |-> TRUE, num |-> (sent - lost) * 100, den |-> sent]
    ELSE [set |-> TRUE, num |-> 0, den |-> 1]

(* (stats['lost'] / stats['sent'] * 100) if stats['sent'] > 0 else 0, the  *)
(* quotient kept as the fraction num / den.                                *)
PacketLoss(lost, sent) ==
    IF sent > 0 THEN [set |-> TRUE, num |-> lost * 100, den |-> sent]
    ELSE [set |-> TRUE, num |-> 0, den |-> 1]

RECURSIVE SeqSum(_), SeqSumSq(_)
SeqSum(s) == IF s = <<>> THEN 0 ELSE Head(s) + SeqSum(Tail(s))
SeqSumSq(s) == IF s = <<>> THEN 0 ELSE Head(s) * Head(s) + SeqSumSq(Tail(s))

(* statistics.stdev(xs), kept as n * (n - 1) * stdev^2                     *)
(* = n * sum(x^2) - sum(x)^2; it raises StatisticsError below two samples. *)
stdev(xs) ==
    [called |-> TRUE, n |-> Len(xs), raised |-> Len(xs) < 2,
     sq |-> IF Len(xs) < 2 THEN 0
            ELSE Len(xs) * SeqSumSq(xs) - SeqSum(xs) * SeqSum(xs)]

(* std before its first assignment, and the literal 0 of the else branch. *)
NoStd == [called |-> FALSE, n |-> 0, raised |-> FALSE, sq |-> 0]

(* A StdDev that calls stdev as soon as there is one sample. *)
StdDevFromOne(xs) == IF Len(xs) > 0 THEN stdev(xs) ELSE NoStd

(* stdev(latencies) if len(latencies) > 1 else 0 *)
StdDev(xs) == IF Len(xs) > 1 THEN stdev(xs) ELSE NoStd

(* Nothing printed after the loop yet. *)
NoFinal ==
    [count |-> 0, sent |-> 0, received |-> 0, lost |-> 0, loss |-> NoRate]

(* ---- bandwidth.py ---- *)

(* safe_diff without its wrap-around branch. *)
safe_diff_no_wrap(current, previous) == current - previous

safe_diff(current, previous) ==
    IF current < previous THEN current ELSE current - previous

(* monitor_bandwidth_rich computes the delta without safe_diff. *)
raw_diff(current, previous) == current - previous

(* The capacity main's mode builds its deques with. *)
StartCapacity(m, c) ==
    IF m = "rich" THEN c - HISTORY_MARGIN ELSE HISTORY_POINTS

BwInit ==
    /\ program = "bandwidth"
    /\ mode \in BwModes
    /\ cols \in Cols
    /\ HISTORY = StartCapacity(mode, cols)
    /\ running = TRUE
    \* deque(maxlen=<negative>) raises ValueError before the loop starts
    /\ pc = IF HISTORY < 0 THEN "crashed" ELSE "top"
    /\ mainPc = IF mode = "interactive" THEN "app_run" ELSE "loop"
    /\ prev \in Readings
    /\ history_dl = <<>>
    /\ history_ul = <<>>
    /\ frame = "none"
    /\ stoppedCleanly = FALSE
    /\ ticks = 0
    /\ readings = <<prev>>
    /\ pushed = <<>>
    /\ lastRead = "none"
    /\ stopRequested = FALSE
    /\ appendsAfterStop = 0
    /\ stats = NewStats
    /\ history_latency = <<>>
    /\ history_ttl = <<>>
    /\ result = NoResult
    /\ probes = <<>>
    /\ packet_loss = NoRate
    /\ std = NoStd
    /\ final = NoFinal
    /\ NoChartCall
    /\ plot = NoPlot
    /\ NoClock

(* The poller thread is a daemon: it runs until the interpreter exits. *)
Alive == mainPc # "exited"

(* A loop head that never reads the running flag. *)
LoopCheckIgnoresFlag ==
    /\ UNCHANGED <<chartVars, tickVars>>
    /\ pc = "top"
    /\ Alive
    /\ pc' = "body"
    /\ UNCHANGED <<program, mode, cols, HISTORY, running, mainPc, frame,
                   stoppedCleanly, ticks, lastRead, stopRequested,
                   appendsAfterStop>>
    /\ UNCHANGED <<bwVars, pingVars>>

(* `while running:` at the top of the loop. *)
LoopCheck ==
    /\ UNCHANGED <<chartVars, tickVars>>
    /\ pc = "top"
    /\ Alive
    /\ pc' = IF running THEN "body"
             ELSE IF mainPc = "loop" THEN "exit_loop" ELSE "thread_done"
    /\ UNCHANGED <<program, mode, cols, HISTORY, running, mainPc, frame,
                   stoppedCleanly, ticks, lastRead, stopRequested, appendsAfterStop>>
    /\ UNCHANGED <<bwVars, pingVars>>

(* A tick that appends its rates but keeps the older reading as prev. *)
SampleKeepsPrev(cur, dl, ul, dl0, ul0) ==
    /\ prev' = prev
    /\ history_dl' = DequeAppend(dl0, dl, HISTORY)
    /\ history_ul' = DequeAppend(ul0, ul, HISTORY)
    /\ readings' = Append(readings, cur)
    /\ pushed' = Append(pushed, <<dl, ul>>)
    /\ elapsed' = (sincePrev + 1) * INTERVAL
    /\ sincePrev' = 0
    /\ appendsAfterStop' =
           IF stopRequested THEN appendsAfterStop + 1 ELSE appendsAfterStop

(* The part of a tick all three modes share once the rates are computed:  *)
(* prev = cur, then one append to each history (onto dl0 / ul0).           *)
Sample(cur, dl, ul, dl0, ul0) ==
    /\ prev' = cur
    /\ history_dl' = DequeAppend(dl0, dl, HISTORY)
    /\ history_ul' = DequeAppend(ul0, ul, HISTORY)
    /\ readings' = Append(readings, cur)
    /\ pushed' = Append(pushed, <<dl, ul>>)
    \* the loop slept once more since prev was read; prev is now this reading
    /\ elapsed' = (sincePrev + 1) * INTERVAL
    /\ sincePrev' = 0
    /\ appendsAfterStop' =
           IF stopRequested THEN appendsAfterStop + 1 ELSE appendsAfterStop

(* One body of monitor_bandwidth.poll_loop, from time.sleep to app.invalidate. *)
poll_loop ==
    /\ UNCHANGED chartVars
    /\ program = "bandwidth" /\ mode = "interactive"
    /\ pc = "body" /\ Alive /\ ticks < MaxTicks
    /\ ticks' = ticks + 1
    /\ \/ \E cur \in Readings, chartOk \in BOOLEAN :
            /\ lastRead' = "ok"
            /\ Sample(cur,
                      safe_diff(cur.recv, prev.recv) \div INTERVAL,
                      safe_diff(cur.sent, prev.sent) \div INTERVAL,
                      history_dl, history_ul)
            \* one plot call draws both histories, width = _final_width()
            /\ plot' = PlotCalls(<<<<"dl", "ul">>>>, _final_width(cols), chartOk)
            \* a chart exception is caught and shown in place of the chart
            /\ frame' = IF chartOk THEN "chart" ELSE "chart_error"
            /\ pc' = "top"
            /\ UNCHANGED running
       \/ \* interface not in counters: flag cleared, message, break
          /\ lastRead' = "missing"
          /\ running' = FALSE
          /\ frame' = "removed"
          /\ pc' = "thread_done"
          /\ plot' = NoPlot
          /\ sincePrev' = sincePrev + 1
          /\ UNCHANGED <<bwVars, appendsAfterStop, elapsed>>
       \/ \* psutil.net_io_counters raises: the outer except ends the loop
          /\ lastRead' = "raise"
          /\ running' = FALSE
          /\ frame' = "unexpected"
          /\ pc' = "thread_done"
          /\ plot' = NoPlot
          /\ sincePrev' = sincePrev + 1
          /\ UNCHANGED <<bwVars, appendsAfterStop, elapsed>>
    /\ UNCHANGED <<program, mode, cols, HISTORY, mainPc, stoppedCleanly,
                   stopRequested, pingVars>>

(* One body of the loop of monitor_bandwidth_original. *)
monitor_bandwidth_original ==
    /\ UNCHANGED chartVars
    /\ program = "bandwidth" /\ mode = "original"
    /\ pc = "body" /\ ticks < MaxTicks
    /\ ticks' = ticks + 1
    /\ \/ \E cur \in Readings, chartOk \in BOOLEAN :
            /\ lastRead' = "ok"
            /\ Sample(cur,
                      safe_diff(cur.recv, prev.recv) \div INTERVAL,
                      safe_diff(cur.sent, prev.sent) \div INTERVAL,
                      history_dl, history_ul)
            \* one plot call draws both histories, width = final_width
            /\ plot' = PlotCalls(<<<<"dl", "ul">>>>, final_width(cols), chartOk)
            /\ frame' = IF chartOk THEN "chart" ELSE "chart_error"
            /\ pc' = "top"
       \/ \* interface not in counters: message, break
          /\ lastRead' = "missing"
          /\ frame' = "removed"
          /\ pc' = "exit_loop"
          /\ plot' = NoPlot
          /\ sincePrev' = sincePrev + 1
          /\ UNCHANGED <<bwVars, appendsAfterStop, elapsed>>
       \/ \* the read raises: message, continue; prev stays the old reading
          /\ lastRead' = "raise"
          /\ frame' = "read_error"
          /\ pc' = "top"
          /\ plot' = NoPlot
          /\ sincePrev' = sincePrev + 1
          /\ UNCHANGED <<bwVars, appendsAfterStop, elapsed>>
    /\ UNCHANGED <<program, mode, cols, HISTORY, running, mainPc,
                   stoppedCleanly, stopRequested, pingVars>>

(* One body of the loop of monitor_bandwidth_rich. *)
monitor_bandwidth_rich ==
    /\ UNCHANGED chartVars
    /\ program = "bandwidth" /\ mode = "rich"
    /\ pc = "body" /\ ticks < MaxTicks
    /\ ticks' = ticks + 1
    /\ LET resized == cols - HISTORY_MARGIN # HISTORY
           \* a width change replaces both deques by empty ones of the old maxlen
           dl0 == IF resized THEN <<>> ELSE history_dl
           ul0 == IF resized THEN <<>> ELSE history_ul
       IN  \/ \E cur \in Readings, chartOk \in BOOLEAN :
                /\ lastRead' = "ok"
                \* the delta is a plain subtraction here, not safe_diff
                /\ Sample(cur,
                          raw_diff(cur.recv, prev.recv) \div INTERVAL,
                          raw_diff(cur.sent, prev.sent) \div INTERVAL,
                          dl0, ul0)
                \* one plot call per history, each with "width": width
                /\ plot' = PlotCalls(<<<<"dl">>, <<"ul">>>>, chart_width, chartOk)
                \* asciichartpy.plot is not guarded in this mode
                /\ frame' = IF chartOk THEN "chart" ELSE frame
                /\ pc' = IF chartOk THEN "top" ELSE "crashed"
           \/ \* counters[interface] raises KeyError out of the function
              /\ lastRead' = "missing"
              /\ history_dl' = dl0
              /\ history_ul' = ul0
              /\ pc' = "crashed"
              /\ plot' = NoPlot
              /\ sincePrev' = sincePrev + 1
              /\ UNCHANGED <<prev, readings, pushed, frame, appendsAfterStop,
                             elapsed>>
           \/ \* the read itself raises out of the function
              /\ lastRead' = "raise"
              /\ history_dl' = dl0
              /\ history_ul' = ul0
              /\ pc' = "crashed"
              /\ plot' = NoPlot
              /\ sincePrev' = sincePrev + 1
              /\ UNCHANGED <<prev, readings, pushed, frame, appendsAfterStop,
                             elapsed>>
    /\ UNCHANGED <<program, mode, cols, HISTORY, running, mainPc,
                   stoppedCleanly, stopRequested, pingVars>>

(* The "q" / "c-c" key binding of the prompt_toolkit application. *)
Quit ==
    /\ UNCHANGED <<chartVars, tickVars>>
    /\ mainPc = "app_run"
    /\ running' = FALSE
    /\ mainPc' = "after_run"
    /\ stopRequested' = TRUE
    /\ UNCHANGED <<program, mode, cols, HISTORY, pc, frame, stoppedCleanly,
                   ticks, lastRead, appendsAfterStop>>
    /\ UNCHANGED <<bwVars, pingVars>>

(* stop(sig, frame): the SIGINT / SIGTERM handler of the main-thread loops. *)
stop ==
    /\ UNCHANGED <<chartVars, tickVars>>
    /\ mainPc = "loop"
    /\ pc \in {"top", "body"}
    /\ ~stopRequested
    /\ running' = FALSE
    /\ stopRequested' = TRUE
    /\ UNCHANGED <<program, mode, cols, HISTORY, pc, mainPc, frame,
                   stoppedCleanly, ticks, lastRead, appendsAfterStop>>
    /\ UNCHANGED <<bwVars, pingVars>>

(* The terminal is resized while the monitor runs. *)
Resize ==
    /\ UNCHANGED <<chartVars, tickVars>>
    /\ pc \in {"top", "body"}
    /\ Alive
    /\ \E c \in Cols \ {cols} : cols' = c
    /\ UNCHANGED <<program, mode, HISTORY, running, pc, mainPc, frame,
                   stoppedCleanly, ticks, lastRead, stopRequested,
                   appendsAfterStop>>
    /\ UNCHANGED <<bwVars, pingVars>>

(* The statements after the loop of a main-thread monitor. *)
AfterLoop ==
    /\ UNCHANGED <<chartVars, tickVars>>
    /\ pc = "exit_loop"
    /\ stoppedCleanly' = TRUE
    /\ IF program = "pingmon" /\ mode = "basic"
       THEN \* monitor_ping_basic prints the statistics with the loop's
            \* packet_loss: NameError when no tick has assigned it
            IF packet_loss.set
            THEN /\ final' = [count |-> final.count + 1,
                              sent |-> stats.sent,
                              received |-> stats.received,
                              lost |-> stats.lost,
                              loss |-> packet_loss]
                 /\ pc' = "done"
            ELSE /\ final' = final
                 /\ pc' = "crashed"
       ELSE \* the other main-thread monitors print the one line only
            /\ final' = final
            /\ pc' = "done"
    /\ UNCHANGED <<program, mode, cols, HISTORY, running, mainPc, frame,
                   ticks, lastRead, stopRequested, appendsAfterStop>>
    /\ UNCHANGED <<bwVars, stats, history_latency, history_ttl, result,
                   probes, packet_loss, std>>

(* The statements after app.run() of monitor_bandwidth; the interpreter    *)
(* then exits and takes the daemon thread with it.                         *)
AfterRun ==
    /\ UNCHANGED <<chartVars, tickVars>>
    /\ program = "bandwidth"
    /\ mainPc = "after_run"
    /\ stoppedCleanly' = TRUE
    /\ mainPc' = "exited"
    /\ UNCHANGED <<program, mode, cols, HISTORY, running, pc, frame,
                   ticks, lastRead, stopRequested, appendsAfterStop>>
    /\ UNCHANGED <<bwVars, pingVars>>

(* ---- pingmon.py ---- *)

PingInit ==
    /\ program = "pingmon"
    /\ mode \in PingModes
    /\ cols \in Cols
    \* HISTORY_POINTS / HISTORY = os.get_terminal_size()[0] - 14
    /\ HISTORY = cols - HISTORY_MARGIN
    /\ running = TRUE
    \* deque(maxlen=<negative>) raises ValueError before the loop starts
    /\ pc = IF HISTORY < 0 THEN "crashed" ELSE "top"
    /\ mainPc = IF mode = "advanced" THEN "app_run" ELSE "loop"
    /\ stats = NewStats
    /\ history_latency = <<>>
    /\ history_ttl = <<>>
    /\ result = NoResult
    /\ probes = <<>>
    /\ packet_loss = NoRate
    /\ std = NoStd
    /\ final = NoFinal
    /\ NoChartCall
    /\ plot = NoPlot
    /\ NoClock
    /\ frame = "none"
    /\ stoppedCleanly = FALSE
    /\ ticks = 0
    /\ lastRead = "none"
    /\ stopRequested = FALSE
    /\ appendsAfterStop = 0
    /\ prev = [recv |-> 0, sent |-> 0]
    /\ history_dl = <<>>
    /\ history_ul = <<>>
    /\ readings = <<>>
    /\ pushed = <<>>

(* A counter that is set rather than incremented. *)
CountSentReset(st) == [st EXCEPT !.sent = 1]

(* stats['sent'] += 1 *)
CountSent(st) == [st EXCEPT !.sent = @ + 1]

(* A failure branch that also feeds the 0 placeholder to min. *)
CountResultMinOnFail(st, r) ==
    IF r.success
    THEN [st EXCEPT !.received = @ + 1,
                    !.min = Min2(@, r.latency),
                    !.max = Max2(@, r.latency),
                    !.latencies = Append(@, r.latency)]
    ELSE [st EXCEPT !.lost = @ + 1, !.min = Min2(@, 0)]

(* A success branch that keeps the latest latency as max. *)
CountResultLatestAsMax(st, r) ==
    IF r.success
    THEN [st EXCEPT !.received = @ + 1,
                    !.min = Min2(@, r.latency),
                    !.max = r.latency,
                    !.latencies = Append(@, r.latency)]
    ELSE [st EXCEPT !.lost = @ + 1]

(* The success / failure branch of a tick on stats. *)
CountResult(st, r) ==
    IF r.success
    THEN [st EXCEPT !.received = @ + 1,
                    !.min = Min2(@, r.latency),
                    !.max = Max2(@, r.latency),
                    !.latencies = Append(@, r.latency)]
    ELSE [st EXCEPT !.lost = @ + 1]

(* The value a tick appends to history_latency. *)
HistoryValue(r) == IF r.success THEN r.latency ELSE 0

(* The value monitor_ping_basic appends to history_ttl. *)
TtlValue(r) ==
    IF r.success THEN (IF r.ttl > 0 THEN r.ttl ELSE DEFAULT_TTL) ELSE 0

(* The branch of a tick that updates stats and the history for result r. *)
Record(r) ==
    /\ stats' = CountResult(CountSent(stats), r)
    /\ history_latency' = DequeAppend(history_latency, HistoryValue(r), HISTORY)
    /\ probes' = Append(probes, [latency |-> r.latency, success |-> r.success])
    /\ packet_loss' = PacketLoss(stats'.lost, stats'.sent)
    /\ lastRead' = IF r.success THEN "ok" ELSE "lost"
    /\ appendsAfterStop' =
           IF stopRequested THEN appendsAfterStop + 1 ELSE appendsAfterStop

(* One body of the loop of monitor_ping_basic, from do_ping to time.sleep. *)
monitor_ping_basic ==
    /\ UNCHANGED chartVars
    /\ program = "pingmon" /\ mode = "basic"
    /\ pc = "body" /\ ticks < MaxProbes
    /\ ticks' = ticks + 1
    /\ \E r \in do_ping, chartOk \in BOOLEAN :
          /\ Record(r)
          /\ result' = r
          /\ history_ttl' = DequeAppend(history_ttl, TtlValue(r), HISTORY)
          \* StdDev is computed and shown only under `if stats['received'] > 0`
          /\ std' = IF stats'.received > 0 THEN StdDev(stats'.latencies) ELSE std
          \* the chart is printed only once the history holds two samples
          /\ frame' = IF Len(history_latency') > 1
                      THEN (IF chartOk THEN "chart" ELSE "chart_error")
                      ELSE "no_chart"
          /\ plot' = IF Len(history_latency') > 1
                     THEN PlotCalls(<<<<"latency">>>>, final_width(cols), chartOk)
                     ELSE NoPlot
    /\ UNCHANGED <<sincePrev, elapsed>>
    /\ pc' = "top"
    /\ final' = final
    /\ UNCHANGED <<program, mode, cols, HISTORY, running, mainPc,
                   stoppedCleanly, stopRequested, bwVars>>

(* monitor_ping_advanced.poll_loop, first half: do_ping and stats['sent'] += 1. *)
ping_poll_loop_probe ==
    /\ UNCHANGED <<chartVars, tickVars>>
    /\ program = "pingmon" /\ mode = "advanced"
    /\ pc = "body" /\ Alive /\ ticks < MaxProbes
    /\ ticks' = ticks + 1
    /\ \E r \in do_ping :
          /\ result' = r
          /\ stats' = CountSent(stats)
    /\ pc' = "update"
    /\ UNCHANGED <<program, mode, cols, HISTORY, running, mainPc, frame,
                   stoppedCleanly, lastRead, stopRequested, appendsAfterStop,
                   history_latency, history_ttl, probes, packet_loss, std,
                   final, bwVars>>

(* monitor_ping_advanced.poll_loop, second half: the success / failure     *)
(* branch, the frame, control.text and time.sleep.                         *)
ping_poll_loop_update ==
    /\ UNCHANGED chartVars
    /\ program = "pingmon" /\ mode = "advanced"
    /\ pc = "update" /\ Alive
    /\ stats' = CountResult(stats, result)
    /\ history_latency' = DequeAppend(history_latency, HistoryValue(result), HISTORY)
    /\ probes' = Append(probes, [latency |-> result.latency,
                                 success |-> result.success])
    /\ packet_loss' = PacketLoss(stats'.lost, stats'.sent)
    /\ std' = StdDev(stats'.latencies)
    /\ lastRead' = IF result.success THEN "ok" ELSE "lost"
    /\ appendsAfterStop' =
           IF stopRequested THEN appendsAfterStop + 1 ELSE appendsAfterStop
    /\ \E chartOk \in BOOLEAN :
          /\ frame' = IF Len(history_latency') > 1
                      THEN (IF chartOk THEN "chart" ELSE "chart_error")
                      ELSE "collecting"
          /\ plot' = IF Len(history_latency') > 1
                     THEN PlotCalls(<<<<"latency">>>>, _final_width(cols), chartOk)
                     ELSE NoPlot
    /\ UNCHANGED <<sincePrev, elapsed>>
    /\ pc' = "top"
    /\ UNCHANGED <<program, mode, cols, HISTORY, running, mainPc,
                   stoppedCleanly, ticks, stopRequested, history_ttl, result,
                   final, bwVars>>

(* One body of the loop of monitor_ping_rich, from do_ping to time.sleep. *)
monitor_ping_rich ==
    /\ UNCHANGED chartVars
    /\ program = "pingmon" /\ mode = "rich"
    /\ pc = "body" /\ ticks < MaxProbes
    /\ ticks' = ticks + 1
    /\ \E r \in do_ping, chartOk \in BOOLEAN :
          /\ Record(r)
          /\ result' = r
          /\ frame' = IF Len(history_latency') >= 2
                      THEN (IF chartOk THEN "chart" ELSE "chart_error")
                      ELSE "collecting"
          \* the cfg carries "width": width, the argument as main passed it
          /\ plot' = IF Len(history_latency') >= 2
                     THEN PlotCalls(<<<<"latency">>>>, chart_width, chartOk)
                     ELSE NoPlot
    /\ UNCHANGED <<sincePrev, elapsed>>
    /\ std' = StdDev(stats'.latencies)
    /\ pc' = "top"
    /\ UNCHANGED <<program, mode, cols, HISTORY, running, mainPc,
                   stoppedCleanly, stopRequested, history_ttl, final, bwVars>>

(* The statements after app.run() of monitor_ping_advanced, first half:    *)
(* "Stopped cleanly." and the loss rate computed from stats.               *)
PingAfterRun ==
    /\ UNCHANGED <<chartVars, tickVars>>
    /\ program = "pingmon"
    /\ mainPc = "after_run"
    /\ stoppedCleanly' = TRUE
    /\ final' = [final EXCEPT !.loss = PacketLoss(stats.lost, stats.sent)]
    /\ mainPc' = "final_stats"
    /\ UNCHANGED <<program, mode, cols, HISTORY, running, pc, frame,
                   ticks, lastRead, stopRequested, appendsAfterStop>>
    /\ UNCHANGED <<bwVars, stats, history_latency, history_ttl, result,
                   probes, packet_loss, std>>

(* Second half: the "Final Statistics" lines read stats again; the         *)
(* interpreter then exits and takes the daemon thread with it.             *)
PingFinalStats ==
    /\ UNCHANGED <<chartVars, tickVars>>
    /\ program = "pingmon"
    /\ mainPc = "final_stats"
    /\ final' = [final EXCEPT !.count = @ + 1,
                              !.sent = stats.sent,
                              !.received = stats.received,
                              !.lost = stats.lost]
    /\ mainPc' = "exited"
    /\ UNCHANGED <<program, mode, cols, HISTORY, running, pc, frame,
                   stoppedCleanly, ticks, lastRead, stopRequested,
                   appendsAfterStop>>
    /\ UNCHANGED <<bwVars, stats, history_latency, history_ttl, result,
                   probes, packet_loss, std>>

Init == BwInit \/ PingInit

Next ==
    \/ LoopCheck
    \/ poll_loop
    \/ monitor_bandwidth_original
    \/ monitor_bandwidth_rich
    \/ monitor_ping_basic
    \/ ping_poll_loop_probe
    \/ ping_poll_loop_update
    \/ monitor_ping_rich
    \/ Quit
    \/ stop
    \/ Resize
    \/ AfterLoop
    \/ AfterRun
    \/ PingAfterRun
    \/ PingFinalStats

Spec == Init /\ [][Next]_vars

(* ---- bandwidth.py: render_chart_precise ---- *)

(* The characters of the returned string: "█", " " and the line break. *)
Filled == "#"
Blank == " "
NL == "\n"

(* The series a caller passes: every series of up to MaxLen samples, and  *)
(* the longer ramps 0, 1, ..., n - 1 of up to MaxRamp samples.             *)
SeriesValues == 0..MaxVal
Ramp(n) == [i \in 1..n |-> i - 1]
SeriesInputs ==
    UNION {[1..n -> SeriesValues] : n \in 0..MaxLen}
        \cup {Ramp(n) : n \in (MaxLen + 1)..MaxRamp}

(* A float kept as the exact fraction num / den. *)
Frac(v) == [num |-> v, den |-> 1]
FracLess(a, b) == a.num * b.den < b.num * a.den
FracSub(a, b) == [num |-> a.num * b.den - b.num * a.den, den |-> a.den * b.den]

(* data[start:end], 0-based and end-exclusive. *)
Slice(s, start, end) == SubSeq(s, start + 1, Min2(end, Len(s)))

(* sum(chunk) / len(chunk) *)
ChunkMean(chunk) == [num |-> SeqSum(chunk), den |-> Len(chunk)]

(* ---- Python float arithmetic of step = n / width and i * step ---- *)

(* A non-negative float as the fixed-point number whole + 0.frac, frac a   *)
(* sequence of bits, most significant first.                               *)
RECURSIVE Log2Floor(_)
Log2Floor(x) == IF x < 2 THEN 0 ELSE 1 + Log2Floor(x \div 2)

RECURSIVE Pow2(_)
Pow2(k) == IF k = 0 THEN 1 ELSE 2 * Pow2(k - 1)

(* 2^k mod w by repeated squaring. *)
RECURSIVE Pow2Mod(_, _)
Pow2Mod(k, w) ==
    IF k = 0 THEN 1 % w
    ELSE LET h == Pow2Mod(k \div 2, w)
         IN  (h * h * (IF k % 2 = 1 THEN 2 ELSE 1)) % w

(* The remainder of the long division r / w (0 <= r < w) after k bits. *)
DivRem(r, w, k) == (r * Pow2Mod(k, w)) % w

(* The first k bits of the fraction r / w, then a 1 when bits remain. *)
DivBits(r, w, k) ==
    [j \in 1..k |-> IF 2 * DivRem(r, w, j - 1) >= w THEN 1 ELSE 0]
        \o (IF DivRem(r, w, k) # 0 THEN <<1>> ELSE <<>>)

(* bits + 1 in the last place, with the carry out of the first. *)
BitsInc(bits) ==
    LET zs == {j \in 1..Len(bits) : bits[j] = 0}
    IN  IF zs = {} THEN [bits |-> [j \in 1..Len(bits) |-> 0], carry |-> 1]
        ELSE LET j == CHOOSE z \in zs : \A m \in zs : m <= z
             IN  [bits |-> [x \in 1..Len(bits) |->
                               IF x < j THEN bits[x] ELSE IF x = j THEN 1 ELSE 0],
                  carry |-> 0]

(* x rounded to its first keep fraction bits, ties to even. *)
RoundNearestEven(x, keep) ==
    IF keep >= Len(x.frac) THEN x
    ELSE LET kept == SubSeq(x.frac, 1, keep)
             guard == x.frac[keep + 1]
             sticky == \E j \in (keep + 2)..Len(x.frac) : x.frac[j] = 1
             lsb == IF keep > 0 THEN kept[keep] ELSE x.whole % 2
         IN  IF guard = 1 /\ (sticky \/ lsb = 1)
             THEN LET up == BitsInc(kept)
                  IN  [whole |-> x.whole + up.carry, frac |-> up.bits]
             ELSE [whole |-> x.whole, frac |-> kept]

(* n / w as a float, for integers n >= w >= 1. *)
FloatDiv(n, w) ==
    LET ip == n \div w
        f == MANT_DIG - 1 - Log2Floor(ip)
    IN  RoundNearestEven([whole |-> ip, frac |-> DivBits(n % w, w, f + 1)], f)

(* The number a bit sequence spells, and the k bits of a number. *)
RECURSIVE BitsValue(_)
BitsValue(bits) ==
    IF bits = <<>> THEN 0
    ELSE 2 * BitsValue(SubSeq(bits, 1, Len(bits) - 1)) + bits[Len(bits)]
ValueBits(v, k) == [j \in 1..k |-> (v \div Pow2(k - j)) % 2]

(* bits * i + cin, eight bits at a time from the last place, with the      *)
(* carry into the whole part.                                              *)
RECURSIVE MulBits(_, _, _)
MulBits(bits, i, cin) ==
    IF bits = <<>> THEN [bits |-> <<>>, carry |-> cin]
    ELSE LET k == Min2(Len(bits), 8)
             t == i * BitsValue(SubSeq(bits, Len(bits) - k + 1, Len(bits))) + cin
             rest == MulBits(SubSeq(bits, 1, Len(bits) - k), i, t \div Pow2(k))
         IN  [bits |-> rest.bits \o ValueBits(t % Pow2(k), k),
              carry |-> rest.carry]

(* i * x as a float, for an integer i >= 1 and a float x >= 1. *)
FloatMul(i, x) ==
    LET m == MulBits(x.frac, i, 0)
        p == [whole |-> i * x.whole + m.carry, frac |-> m.bits]
    IN  RoundNearestEven(p, MANT_DIG - 1 - Log2Floor(p.whole))

(* int(i * step) with step = n / width, both operations in floats. *)
Boundary(i, n, w) == IF i = 0 THEN 0 ELSE FloatMul(i, FloatDiv(n, w)).whole

(* A fit that pads on the left, with the first value. *)
FitWidthPadLeft(s, w) ==
    LET d == IF Len(s) = 1 THEN <<s[1], s[1]>> ELSE s
        n == Len(d)
    IN  IF n > w
        THEN [i \in 1..w |->
                 ChunkMean(Slice(d, Boundary(i - 1, n, w), Boundary(i, n, w)))]
        ELSE IF n < w
        THEN [i \in 1..w |-> Frac(IF i <= w - n THEN d[1] ELSE d[i - (w - n)])]
        ELSE [i \in 1..n |-> Frac(d[i])]

(* "normalize in width": a single sample is duplicated; a series longer    *)
(* than w is cut into w buckets [int(i*step), int((i+1)*step)) with        *)
(* step = n / w and each bucket replaced by its mean; a shorter one is     *)
(* padded on the right with its last value.                                *)
FitWidth(s, w) ==
    LET d == IF Len(s) = 1 THEN <<s[1], s[1]>> ELSE s
        n == Len(d)
    IN  IF n > w
        THEN [i \in 1..w |->
                 ChunkMean(Slice(d, Boundary(i - 1, n, w), Boundary(i, n, w)))]
        ELSE IF n < w
        THEN [i \in 1..w |-> Frac(IF i <= n THEN d[i] ELSE d[n])]
        ELSE [i \in 1..n |-> Frac(d[i])]

RECURSIVE FracMin(_), FracMax(_)
FracMin(d) ==
    IF Len(d) = 1 THEN d[1]
    ELSE LET m == FracMin(Tail(d)) IN IF FracLess(m, d[1]) THEN m ELSE d[1]
FracMax(d) ==
    IF Len(d) = 1 THEN d[1]
    ELSE LET m == FracMax(Tail(d)) IN IF FracLess(d[1], m) THEN m ELSE d[1]

(* span = hi - lo or 1 *)
Span(d) ==
    LET diff == FracSub(FracMax(d), FracMin(d))
    IN  IF diff.num = 0 THEN Frac(1) ELSE diff

(* (val - lo) / span * (height - 1), a non-negative fraction. *)
Scaled(val, d, h) ==
    LET off == FracSub(val, FracMin(d))
        sp == Span(d)
    IN  [num |-> off.num * sp.den * (h - 1), den |-> off.den * sp.num]

(* A row index that is not inverted: row 0 for the least value. *)
RowOfNotInverted(val, d, h) ==
    LET q == Scaled(val, d, h)
    IN  q.num \div q.den

(* A row index inverted against height instead of height - 1. *)
RowOfOffByOne(val, d, h) ==
    LET q == Scaled(val, d, h)
    IN  h - (q.num \div q.den)

(* y = int(...); y = height - 1 - y: the 0-based row of a value, row 0     *)
(* being the top line.                                                     *)
RowOf(val, d, h) ==
    LET q == Scaled(val, d, h)
    IN  h - 1 - (q.num \div q.den)

(* rows[y][x] = "█" on a grid of h rows of w blanks. *)
Rows(d, w, h) ==
    [r \in 1..h |->
        [x \in 1..w |->
            IF x <= Len(d) /\ RowOf(d[x], d, h) = r - 1 THEN Filled ELSE Blank]]

(* "\n".join("".join(r) for r in rows) *)
RECURSIVE Join(_)
Join(rows) ==
    IF rows = <<>> THEN <<>>
    ELSE IF Len(rows) = 1 THEN rows[1]
    ELSE rows[1] \o <<NL>> \o Join(Tail(rows))

(* The string the function returns: "" for an empty series. *)
ChartText(s, w, h) ==
    IF s = <<>> THEN <<>> ELSE Join(Rows(FitWidth(s, w), w, h))

ChartInit ==
    /\ program = "chart"
    /\ series \in SeriesInputs
    /\ width \in 1..MaxWidth
    /\ height \in 1..MaxHeight
    /\ data = <<>>
    /\ out = <<>>
    /\ chartPc = "call"
    /\ mode = "none"
    /\ cols = HISTORY_MARGIN
    /\ HISTORY = 0
    /\ running = FALSE
    /\ pc = "done"
    /\ mainPc = "exited"
    /\ prev = [recv |-> 0, sent |-> 0]
    /\ history_dl = <<>>
    /\ history_ul = <<>>
    /\ frame = "none"
    /\ stoppedCleanly = FALSE
    /\ ticks = 0
    /\ readings = <<>>
    /\ pushed = <<>>
    /\ lastRead = "none"
    /\ stopRequested = FALSE
    /\ appendsAfterStop = 0
    /\ stats = NewStats
    /\ history_latency = <<>>
    /\ history_ttl = <<>>
    /\ result = NoResult
    /\ probes = <<>>
    /\ packet_loss = NoRate
    /\ std = NoStd
    /\ final = NoFinal
    /\ plot = NoPlot
    /\ NoClock

(* One call of render_chart_precise(series, width, height). *)
render_chart_precise ==
    /\ chartPc = "call"
    /\ data' = IF series = <<>> THEN <<>> ELSE FitWidth(series, width)
    /\ out' = ChartText(series, width, height)
    /\ chartPc' = "returned"
    /\ UNCHANGED <<series, width, height, ctlVars, bwVars, pingVars, tickVars>>

ChartNext == render_chart_precise

SpecChart == ChartInit /\ [][ChartNext]_vars

(* ======================= the claims ======================= *)

RECURSIVE SeqMin(_), SeqMax(_)
SeqMin(s) == IF s = <<>> THEN Inf ELSE Min2(Head(s), SeqMin(Tail(s)))
SeqMax(s) == IF s = <<>> THEN 0 ELSE Max2(Head(s), SeqMax(Tail(s)))

Successes == SelectSeq(probes, LAMBDA p : p.success)
Failures == SelectSeq(probes, LAMBDA p : ~p.success)
PushedDl == [i \in 1..Len(pushed) |-> pushed[i][1]]
PushedUl == [i \in 1..Len(pushed) |-> pushed[i][2]]
ProbeValues ==
    [i \in 1..Len(probes) |->
        IF probes[i].success THEN probes[i].latency ELSE 0]
LoopAlive == pc \in {"top", "body", "update"}
LoopEnded == pc \in {"exit_loop", "thread_done", "done"}

(* C1: in every bandwidth display mode no value appended to the download   *)
(* or upload history is negative, also when a counter reading is lower     *)
(* than the previous one.  monitor_bandwidth_rich subtracts without        *)
(* safe_diff, so a counter reset appends a negative rate there.            *)
C1_NoNegativeRate ==
    \A i \in 1..Len(pushed) : pushed[i][1] >= 0 /\ pushed[i][2] >= 0

(* C2: safe_diff(current, previous) is current - previous when             *)
(* current >= previous and current when current < previous, and is never   *)
(* negative: stated of every rate the modes that call safe_diff appended,  *)
(* against the two readings it was computed from.                          *)
C2_SafeDiffContract ==
    (program = "bandwidth" /\ mode \in {"interactive", "original"}) =>
        \A i \in 1..Len(pushed) :
            LET p == readings[i]
                c == readings[i + 1]
            IN  /\ c.recv >= p.recv => pushed[i][1] = c.recv - p.recv
                /\ c.recv < p.recv => pushed[i][1] = c.recv
                /\ c.sent >= p.sent => pushed[i][2] = c.sent - p.sent
                /\ c.sent < p.sent => pushed[i][2] = c.sent
                /\ pushed[i][1] >= 0 /\ pushed[i][2] >= 0

(* C2 witness: a tick whose download counter was reset to a value above 0  *)
(* and whose upload counter grew.                                          *)
C2_Witness ==
    /\ program = "bandwidth" /\ mode \in {"interactive", "original"}
    /\ \E i \in 1..Len(pushed) :
          /\ readings[i + 1].recv < readings[i].recv
          /\ readings[i + 1].recv > 0
          /\ readings[i + 1].sent > readings[i].sent

(* C3: once the stop has completed (the application has exited and the     *)
(* monitor function is past app.run()) the poller thread writes neither    *)
(* the histories nor the statistics.  The daemon thread is never joined,   *)
(* so the tick in flight lands after app.run() has returned.               *)
C3_NoWriteAfterStop ==
    [][(mainPc \in {"after_run", "final_stats", "exited"}) =>
          (<<history_dl, history_ul, history_latency, stats>>' =
           <<history_dl, history_ul, history_latency, stats>>)]_vars

(* C4: once a quit key or a signal has cleared the running flag, the loop  *)
(* performs at most the one tick that was in flight (at most one further   *)
(* history append) and does not enter another body: the check at the top   *)
(* of the next iteration ends it.                                          *)
C4_StopWithinOneTick ==
    /\ appendsAfterStop <= 1
    /\ (stopRequested /\ appendsAfterStop = 1) => pc \notin {"body", "update"}
    /\ (stopRequested /\ ~running /\ pc \in {"body", "update"}) =>
           appendsAfterStop = 0

(* C4 witness: a stop was requested, the tick in flight appended, and the  *)
(* loop has ended.                                                         *)
C4_Witness == stopRequested /\ appendsAfterStop = 1 /\ LoopEnded

(* C5: after every tick each history holds at most maxlen samples and      *)
(* exactly the newest min(pushes, maxlen) of the samples pushed, in        *)
(* order.  In monitor_bandwidth_rich a width change empties the histories  *)
(* (C6), so they hold fewer.                                               *)
C5_HistoryIsNewestPushes ==
    (LoopAlive \/ LoopEnded) =>
    /\ Len(history_dl) <= Max2(HISTORY, 0)
    /\ Len(history_ul) <= Max2(HISTORY, 0)
    /\ Len(history_latency) <= Max2(HISTORY, 0)
    /\ history_dl = Newest(PushedDl, Min2(Len(pushed), HISTORY))
    /\ history_ul = Newest(PushedUl, Min2(Len(pushed), HISTORY))
    /\ history_latency = Newest(ProbeValues, Min2(Len(probes), HISTORY))

(* C6: in monitor_bandwidth_rich a tick that sees a terminal width other   *)
(* than the one the capacity was derived from keeps the samples collected  *)
(* so far (the newest newCapacity of them on a shrink, all of them on a    *)
(* grow) and appends to them.  The code replaces both deques by empty      *)
(* ones.                                                                   *)
C6_ResizeKeepsSamples ==
    [][(/\ program = "bandwidth" /\ mode = "rich"
        /\ Len(pushed') = Len(pushed) + 1 /\ pc' = "top"
        /\ history_dl # <<>>
        /\ cols - HISTORY_MARGIN # HISTORY
        /\ cols - HISTORY_MARGIN >= 1)
       => LET newCap == cols - HISTORY_MARGIN
              new == pushed'[Len(pushed')]
          IN  /\ history_dl' = DequeAppend(Newest(history_dl, newCap), new[1], newCap)
              /\ history_ul' = DequeAppend(Newest(history_ul, newCap), new[2], newCap)
      ]_vars

(* C7: the history capacity derived as terminal columns minus 14 is at     *)
(* least 1 for every width the process can start with.  Nothing clamps it: *)
(* 14 columns give maxlen 0, fewer give a negative maxlen.                 *)
C7_CapacityAtLeastOne ==
    (program = "pingmon" \/ mode = "rich") => HISTORY >= 1

(* C8: in every ping loop each probe, successful or not, increments sent   *)
(* and appends one value to the latency history (the latency, or 0 for a   *)
(* failure); a failure increments lost and leaves received, min, max and   *)
(* the latency list alone; and a failed probe does not end the loop.       *)
C8_FailedProbeIsRecorded ==
    program = "pingmon" =>
        /\ stats.sent = Len(probes) + (IF pc = "update" THEN 1 ELSE 0)
        /\ stats.lost = Len(Failures)
        /\ stats.received = Len(Successes)
        /\ stats.latencies = [i \in 1..Len(Successes) |-> Successes[i].latency]
        /\ stats.min = SeqMin(stats.latencies)
        /\ stats.max = SeqMax(stats.latencies)
        /\ history_latency = Newest(ProbeValues, HISTORY)
        /\ (~stopRequested /\ HISTORY >= 0) => (running /\ LoopAlive)

(* C8 witness: a failed probe was recorded after a successful one and the  *)
(* loop went on to a further, successful probe.                            *)
C8_Witness ==
    /\ program = "pingmon"
    /\ Len(probes) >= 3
    /\ probes[1].success /\ ~probes[2].success /\ probes[3].success
    /\ stats.lost = 1 /\ stats.received = 2
    /\ Len(history_latency) >= 2
    /\ history_latency[Len(history_latency) - 1] = 0

(* C9: in every bandwidth display mode a counter read that raises on one   *)
(* tick leaves the sampling loop running.  Only monitor_bandwidth_original *)
(* catches it and continues; poll_loop's outer except ends the loop and    *)
(* monitor_bandwidth_rich lets the exception out.                          *)
C9_ReadErrorKeepsLoop ==
    (program = "bandwidth" /\ lastRead = "raise" /\ ~stopRequested) =>
        (running /\ LoopAlive)

(* C10: in every bandwidth display mode a tick that finds the interface    *)
(* missing stops the loop gracefully: nothing is appended on that tick, no *)
(* exception leaves the loop, and the final message is shown and stays.    *)
(* monitor_bandwidth_rich indexes the mapping directly: KeyError.          *)
C10_MissingInterfaceStopsGracefully ==
    /\ [](program = "bandwidth" /\ lastRead = "missing" =>
              pc # "crashed" /\ ~LoopAlive /\ frame = "removed")
    /\ [][program = "bandwidth" /\ lastRead' = "missing" =>
              pushed' = pushed /\ history_dl' = history_dl
                               /\ history_ul' = history_ul]_vars

(* C11: at the end of every tick of every ping loop sent is the number of  *)
(* probes made, received the number that succeeded and lost the number     *)
(* that failed, so sent = received + lost; and no step of the program      *)
(* lowers or resets one of the three counters.                             *)
C11_CountersAddUp ==
    /\ []((program = "pingmon" /\ pc # "update") =>
              /\ stats.sent = Len(probes)
              /\ stats.received = Cardinality({i \in 1..Len(probes) : probes[i].success})
              /\ stats.lost = Cardinality({i \in 1..Len(probes) : ~probes[i].success})
              /\ stats.sent = stats.received + stats.lost)
    /\ [][/\ stats'.sent >= stats.sent
          /\ stats'.received >= stats.received
          /\ stats'.lost >= stats.lost]_vars

(* C11 witness: three ticks have ended with both outcomes among them.      *)
C11_Witness ==
    /\ program = "pingmon" /\ pc = "top"
    /\ stats.sent = 3 /\ stats.received = 2 /\ stats.lost = 1

(* The rate r is lost / sent * 100 when sent > 0 and 0 otherwise, and lies *)
(* between 0 and 100.                                                      *)
RateIs(r, lost, sent) ==
    /\ r.set /\ r.den > 0
    /\ sent > 0 => r.num * sent = lost * 100 * r.den
    /\ sent = 0 => r.num = 0
    /\ 0 <= r.num /\ r.num <= 100 * r.den

(* C12: the loss rate a tick reports is lost / sent * 100 of the probes    *)
(* made so far, the loss rate of the final statistics is lost / sent * 100 *)
(* of the counters it is computed from (0 when sent is 0), and both lie    *)
(* between 0 and 100; sent = 5 with received = 3 gives 40.                 *)
C12_LossRate ==
    /\ [](program = "pingmon" =>
              /\ packet_loss.set =>
                     RateIs(packet_loss, Len(Failures), Len(probes))
              /\ (mode = "basic" /\ final.count > 0) =>
                     RateIs(final.loss, final.lost, final.sent))
    /\ [][(mainPc = "after_run" /\ mainPc' = "final_stats") =>
              RateIs(final'.loss, stats.lost, stats.sent)]_vars
    /\ [](LET r == PacketLoss(5 - 3, 5) IN r.num = 40 * r.den)

(* C12 witness: the advanced monitor has printed final statistics with one *)
(* probe of three lost, a rate of 100/3, as the last tick had shown.       *)
C12_Witness ==
    /\ program = "pingmon" /\ mode = "advanced"
    /\ final.count = 1 /\ final.sent = 3 /\ final.lost = 1
    /\ final.loss = [set |-> TRUE, num |-> 100, den |-> 3]
    /\ packet_loss = final.loss

(* The stats after one tick per element of rs, starting from st. *)
RECURSIVE Feed(_, _)
Feed(st, rs) ==
    IF rs = <<>> THEN st
    ELSE Feed(CountResult(CountSent(st), Head(rs)), Tail(rs))

Answer(ms) == [latency |-> ms, ttl |-> 1, success |-> TRUE]

(* C13: min and max are the least and the greatest latency of the          *)
(* successful probes only: the 0 recorded for a lost probe never lowers    *)
(* min, and with no success yet both keep their initial values.  The       *)
(* probes 10, 20, 15, lost, 25 give sent 5, received 4, lost 1, min 10,    *)
(* max 25 and a loss rate of 20.                                           *)
C13_MinMaxOverSuccesses ==
    /\ program = "pingmon" =>
          IF \E i \in 1..Len(probes) : probes[i].success
          THEN /\ \E i \in 1..Len(probes) :
                     probes[i].success /\ probes[i].latency = stats.min
               /\ \E i \in 1..Len(probes) :
                     probes[i].success /\ probes[i].latency = stats.max
               /\ \A i \in 1..Len(probes) : probes[i].success =>
                     /\ stats.min <= probes[i].latency
                     /\ probes[i].latency <= stats.max
               /\ stats.min > 0
          ELSE stats.min = Inf /\ stats.max = 0
    /\ LET st == Feed(NewStats, <<Answer(10), Answer(20), Answer(15),
                                  NoResult, Answer(25)>>)
           r == PacketLoss(st.lost, st.sent)
       IN  /\ st.sent = 5 /\ st.received = 4 /\ st.lost = 1
           /\ st.min = 10 /\ st.max = 25
           /\ r.num = 20 * r.den

(* C13 witness: a probe was lost between a slower and a faster answer.     *)
C13_Witness ==
    /\ program = "pingmon" /\ Len(probes) = 3
    /\ probes[1].success /\ ~probes[2].success /\ probes[3].success
    /\ probes[1].latency > probes[3].latency
    /\ stats.min = probes[3].latency /\ stats.max = probes[1].latency

(* C14: the standard deviation a tick reports is 0 while fewer than two    *)
(* probes have succeeded, and stdev is only ever invoked on two or more    *)
(* successful samples, namely all of them, so it never raises.             *)
C14_StdDevNeedsTwo ==
    program = "pingmon" =>
        /\ Len(Successes) < 2 => (~std.called /\ std.sq = 0)
        /\ std.called =>
               /\ std.n >= 2 /\ ~std.raised
               /\ std.n = Len(Successes)
        /\ Len(Successes) >= 2 => std.called

(* C14 witness: two ticks have ended, one probe succeeded, and the tick    *)
(* reported 0 without calling stdev.                                       *)
C14_Witness ==
    /\ program = "pingmon" /\ pc = "top"
    /\ Len(probes) = 2 /\ Len(Successes) = 1
    /\ std = NoStd /\ packet_loss.set

(* C15: every ping variant prints the final aggregate statistics exactly   *)
(* once after its loop has stopped, however it was stopped, a stop before  *)
(* the first tick included.  monitor_ping_rich prints "Stopped cleanly."   *)
(* and nothing else; monitor_ping_basic prints the loop's packet_loss,     *)
(* which is unbound when the loop body never ran.                          *)
C15_FinalStatisticsOnce ==
    /\ final.count <= 1
    /\ (program = "pingmon" /\ stoppedCleanly /\ mainPc # "final_stats") =>
           final.count = 1

(* The lines of a string: its pieces between line breaks. *)
RECURSIVE Lines(_)
Lines(str) ==
    IF \A i \in 1..Len(str) : str[i] # NL THEN <<str>>
    ELSE LET i == CHOOSE k \in 1..Len(str) :
                      str[k] = NL /\ \A j \in 1..(k - 1) : str[j] # NL
         IN  <<SubSeq(str, 1, i - 1)>> \o Lines(SubSeq(str, i + 1, Len(str)))

(* C16: for a non-empty series, width >= 1 and height >= 1 the string      *)
(* render_chart_precise returns is a grid of exactly height lines of       *)
(* exactly width characters, every column of which holds exactly one       *)
(* filled cell; every column and row index the computation uses is in      *)
(* range.                                                                  *)
C16_ChartGeometry ==
    (chartPc = "returned" /\ series # <<>>) =>
        LET grid == Lines(out)
        IN  /\ Len(grid) = height
            /\ \A r \in 1..Len(grid) :
                  /\ Len(grid[r]) = width
                  /\ \A x \in 1..Len(grid[r]) : grid[r][x] \in {Filled, Blank}
            /\ \A x \in 1..width :
                  Cardinality({r \in 1..Len(grid) :
                                  x <= Len(grid[r]) /\ grid[r][x] = Filled}) = 1
            /\ Len(data) = width
            /\ \A x \in 1..Len(data) :
                  /\ data[x].den > 0
                  /\ RowOf(data[x], data, height) \in 0..(height - 1)

(* C16 witness: a series longer than the width was drawn on three lines    *)
(* and two of its columns are filled on different lines.                   *)
C16_Witness ==
    /\ chartPc = "returned"
    /\ Len(series) > width /\ width >= 2 /\ height = 3
    /\ Lines(out)[1][1] = Filled
    /\ Lines(out)[3][2] = Filled

(* C17: for an empty series render_chart_precise returns a blank grid of   *)
(* the requested geometry: height lines of width blanks.  The code returns *)
(* the empty string before any grid is built.                              *)
C17_EmptySeriesBlankGrid ==
    (chartPc = "returned" /\ series = <<>>) =>
        LET grid == Lines(out)
        IN  /\ Len(grid) = height
            /\ \A r \in 1..Len(grid) :
                  /\ Len(grid[r]) = width
                  /\ \A x \in 1..Len(grid[r]) : grid[r][x] = Blank

(* s[a+1] + ... + s[b]: the sum of the 0-based elements a .. b-1. *)
RECURSIVE RangeSum(_, _, _)
RangeSum(s, a, b) == IF a >= b THEN 0 ELSE s[b] + RangeSum(s, a, b - 1)

(* C18: when the series is longer than width, the fitted data has exactly  *)
(* width columns and column i (from 0) is the mean of the elements         *)
(* floor(i*n/width) .. floor((i+1)*n/width) - 1; every such bucket is      *)
(* non-empty.  The series 0..9 at width 5 gives 0.5, 2.5, 4.5, 6.5, 8.5.   *)
(* The code takes the boundaries as int(i * step) with the float           *)
(* step = n / width: for 15 samples at width 11 the product 11 * step is   *)
(* just below 15 and the last bucket ends at element 13.                   *)
C18_BucketMeans ==
    /\ (chartPc = "returned" /\ Len(series) > width) =>
          LET n == Len(series)
          IN  /\ Len(data) = width
              /\ \A i \in 0..(width - 1) :
                    LET a == (i * n) \div width
                        b == ((i + 1) * n) \div width
                    IN  /\ b > a
                        /\ data[i + 1].den > 0
                        /\ data[i + 1].num * (b - a) =
                               data[i + 1].den * RangeSum(series, a, b)
    /\ LET d == FitWidth(<<0, 1, 2, 3, 4, 5, 6, 7, 8, 9>>, 5)
       IN  /\ Len(d) = 5
           /\ \A i \in 0..4 : 2 * d[i + 1].num = (4 * i + 1) * d[i + 1].den

(* C19: for a series of 2 <= n <= width samples the first n columns of the *)
(* fitted data are the samples unchanged and every further column holds    *)
(* the last sample; with n = width the series passes through unchanged.    *)
(* The series 3, 7 at width 5 gives 3, 7, 7, 7, 7.                         *)
C19_PadWithLast ==
    /\ (chartPc = "returned" /\ 2 <= Len(series) /\ Len(series) <= width) =>
          /\ Len(data) = width
          /\ \A x \in 1..Len(data) :
                /\ data[x].den = 1
                /\ x <= Len(series) => data[x].num = series[x]
                /\ x > Len(series) => data[x].num = series[Len(series)]
    /\ FitWidth(<<3, 7>>, 5) = <<Frac(3), Frac(7), Frac(7), Frac(7), Frac(7)>>
    /\ FitWidth(<<3, 7>>, 2) = <<Frac(3), Frac(7)>>

(* C19 witness: two different samples were fitted to five columns.         *)
C19_Witness ==
    /\ chartPc = "returned"
    /\ Len(series) = 2 /\ width = 5
    /\ series[1] > series[2]
    /\ data[1].num = series[1] /\ data[5].num = series[2]

(* C20: the filled cell of a column with value v is on row                 *)
(* height - 1 - round((v - lo) / span * (height - 1)), rows counted from   *)
(* the top, lo and hi the least and greatest fitted value and span 1 when  *)
(* they are equal: the scaled position is rounded to the nearest row (a    *)
(* position halfway between two rows may go to either).  The code          *)
(* truncates the position with int() instead.                              *)
C20_RowIsNearest ==
    (chartPc = "returned" /\ series # <<>>) =>
        LET grid == Lines(out)
        IN  \A x \in 1..Len(data) : \A r \in 1..Len(grid) :
                (x <= Len(grid[r]) /\ grid[r][x] = Filled) =>
                    LET q == Scaled(data[x], data, height)
                        y == height - r
                        dist == y * q.den - q.num
                    IN  /\ 2 * dist <= q.den
                        /\ 2 * (0 - dist) <= q.den

(* The 0-based line, counted from the top, on which column x is filled. *)
FilledRow(grid, x) ==
    CHOOSE r \in 0..(Len(grid) - 1) : grid[r + 1][x] = Filled

(* C21: when the fitted data is not flat, a column holding the least value *)
(* is filled on the bottom line (index height - 1), a column holding the   *)
(* greatest value on the top line (index 0), and of two columns with       *)
(* values v1 <= v2 the one with v1 is not above the one with v2.  With     *)
(* the data 0, 5, 10 and height 3 the value 5 is on the middle line.       *)
C21_MinBottomMaxTop ==
    /\ (/\ chartPc = "returned" /\ series # <<>>
        /\ \E x1, x2 \in 1..Len(data) : FracLess(data[x1], data[x2])) =>
          LET grid == Lines(out)
          IN  \A x1, x2 \in 1..Len(data) :
                 /\ (\A z \in 1..Len(data) : ~FracLess(data[z], data[x1])) =>
                        grid[height][x1] = Filled
                 /\ (\A z \in 1..Len(data) : ~FracLess(data[x1], data[z])) =>
                        grid[1][x1] = Filled
                 /\ ~FracLess(data[x2], data[x1]) =>
                        FilledRow(grid, x1) >= FilledRow(grid, x2)
    /\ LET grid == Lines(ChartText(<<0, 5, 10>>, 3, 3))
       IN  /\ grid[3][1] = Filled
           /\ grid[2][2] = Filled
           /\ grid[1][3] = Filled

(* C21 witness: three lines, a column on each of them, the least value on  *)
(* the bottom line and the greatest on the top line.                       *)
C21_Witness ==
    /\ chartPc = "returned"
    /\ series = <<0, 1, 2>> /\ width = 3 /\ height = 3
    /\ Lines(out)[3][1] = Filled
    /\ Lines(out)[2][2] = Filled
    /\ Lines(out)[1][3] = Filled

(* C22: a flat series (all fitted values equal) is drawn, without a        *)
(* division by zero, as one line of filled cells, and that line is the     *)
(* middle line of the grid (either of the two middle lines when height is  *)
(* even).  The code gives span the value 1 and every column the position   *)
(* 0, which is the bottom line.                                            *)
C22_FlatSeriesCentered ==
    (/\ chartPc = "returned" /\ series # <<>>
     /\ \A x1, x2 \in 1..Len(data) : ~FracLess(data[x1], data[x2])) =>
        LET grid == Lines(out)
        IN  /\ Span(data).num # 0
            /\ \E r \in {(height - 1) \div 2, height \div 2} :
                  /\ \A x \in 1..width : grid[r + 1][x] = Filled
                  /\ \A q \in 1..height : \A x \in 1..width :
                        q # r + 1 => grid[q][x] = Blank

(* ---- C23 ---- *)

(* A step in which a tick appended its sample and built its frame. *)
Sampled == pushed' # pushed \/ probes' # probes

(* C23: with the configured chart width 0 (auto), the width every tick     *)
(* hands to the chart is resolved from the terminal width read on that    *)
(* tick (columns minus the margin of 4, or the floor of 10 columns a      *)
(* narrower terminal gets) -- in every display mode of both monitors,     *)
(* never the literal 0 and never a width read on an earlier tick.         *)
C23_AutoWidthFromTerminal ==
    [][(Sampled /\ chart_width = 0 /\ plot'.called) =>
            /\ plot'.width # 0
            /\ \/ plot'.width = cols - WIDTH_MARGIN
               \/ cols - WIDTH_MARGIN < MIN_WIDTH /\ plot'.width = MIN_WIDTH]_vars

(* ---- C24 ---- *)

(* C24: in every monitor loop of both programs an exception raised while   *)
(* the tick builds its chart does not end the sampling loop: the tick     *)
(* publishes an error or placeholder frame and the loop is back at its    *)
(* head for the next tick.                                                *)
C24_ChartErrorKeepsLoop ==
    [][(Sampled /\ plot'.raised) =>
            /\ frame' \in {"chart_error", "collecting"}
            /\ pc' = "top"]_vars

(* ---- C25 ---- *)

(* The values a history passed to a plot call holds. *)
SeriesOf(name) ==
    IF name = "dl" THEN history_dl
    ELSE IF name = "ul" THEN history_ul
    ELSE history_latency

(* All values of the series one plot call receives. *)
CallValues(call) ==
    UNION {{SeriesOf(call[k])[j] : j \in 1..Len(SeriesOf(call[k]))} :
              k \in 1..Len(call)}

(* asciichartpy.plot(series, cfg) with no "min" / "max" in cfg scales      *)
(* every series of the call between the smallest and the largest value   *)
(* of all the series it was given.                                        *)
PlotRange(call) ==
    LET vs == CallValues(call)
    IN  [lo |-> CHOOSE v \in vs : \A u \in vs : v <= u,
         hi |-> CHOOSE v \in vs : \A u \in vs : v >= u]

(* C25: when download and upload are drawn in one frame, each series is   *)
(* scaled between its own minimum and maximum, not a range shared with    *)
(* the other series -- in every bandwidth display mode, also those that   *)
(* pass both histories to one plot call.                                  *)
C25_OwnScalePerSeries ==
    (/\ program = "bandwidth" /\ frame = "chart"
     /\ plot.called /\ ~plot.raised
     /\ history_dl # <<>> /\ history_ul # <<>>) =>
        \A c \in 1..Len(plot.calls) : \A k \in 1..Len(plot.calls[c]) :
            PlotRange(plot.calls[c]) = PlotRange(<<plot.calls[c][k]>>)

(* ---- C26 ---- *)

(* C26: the final statistics monitor_ping_advanced prints after the UI     *)
(* exits are one consistent snapshot, however the quit key interleaves    *)
(* with the poller thread: sent = received + lost, and the loss rate      *)
(* printed is lost / sent * 100 of those same values.                     *)
C26_FinalStatsSnapshot ==
    (program = "pingmon" /\ mode = "advanced" /\ final.count > 0) =>
        /\ final.sent = final.received + final.lost
        /\ RateIs(final.loss, final.lost, final.sent)

(* ---- C27 ---- *)

(* C27: in every bandwidth display mode the rate a tick appends is the     *)
(* byte difference between the current reading and the previous           *)
(* successful reading divided by the seconds that passed between those    *)
(* two readings, also when reads in between failed and were skipped       *)
(* (stated for counters that did not go backwards).                       *)
C27_RatePerElapsedSecond ==
    (program = "bandwidth" /\ pushed # <<>>) =>
        LET n == Len(pushed)
            cur == readings[n + 1]
            old == readings[n]
        IN  /\ cur.recv >= old.recv => pushed[n][1] * elapsed = cur.recv - old.recv
            /\ cur.sent >= old.sent => pushed[n][2] * elapsed = cur.sent - old.sent

(* ---- C28 ---- *)

(* C28: every bandwidth monitor reads a baseline before its first         *)
(* interval elapses, so each sample -- the first one too -- is the        *)
(* difference between the tick's reading and the reading before it,       *)
(* never the absolute counter value (counters that went backwards set     *)
(* aside), and prev is the current reading after every successful tick.   *)
C28_BaselineThenDifferences ==
    program = "bandwidth" =>
        /\ Len(readings) = Len(pushed) + 1
        /\ prev = readings[Len(readings)]
        /\ \A i \in 1..Len(pushed) :
              LET cur == readings[i + 1]
                  old == readings[i]
              IN  /\ cur.recv >= old.recv =>
                         pushed[i][1] * INTERVAL = cur.recv - old.recv
                  /\ cur.sent >= old.sent =>
                         pushed[i][2] * INTERVAL = cur.sent - old.sent

(* C28 witness: the baseline read 1 byte, the first tick 2 and the second *)
(* tick 2 again: the samples are 1 and 0, not 2 and 2, and prev is the    *)
(* reading of the second tick.                                            *)
C28_Witness ==
    /\ program = "bandwidth" /\ mode = "rich"
    /\ readings = <<[recv |-> 1, sent |-> 0], [recv |-> 2, sent |-> 0],
                    [recv |-> 2, sent |-> 2]>>
    /\ pushed = <<<<1, 0>>, <<0, 2>>>>
    /\ prev = [recv |-> 2, sent |-> 2]

(* ---- C29 ---- *)

(* C29: in every ping monitor variant a tick that leaves fewer than 2     *)
(* samples in the latency history publishes a collecting-data placeholder *)
(* in place of the chart, a tick that leaves 2 or more renders a chart,   *)
(* and the chart renderer is never called with fewer than 2 samples.      *)
C29_PlaceholderUntilTwoSamples ==
    [][(program = "pingmon" /\ probes' # probes) =>
          /\ Len(history_latency') < 2 =>
                 frame' = "collecting" /\ ~plot'.called
          /\ Len(history_latency') >= 2 =>
                 plot'.called /\ frame' \in {"chart", "chart_error"}]_vars

====
